---- MODULE Spec2Model ----
(***************************************************************************)
(* The cascade/offer state machine of the auction bot: lots, bids, offers, *)
(* the bid intake, the finish action (start_cascade), the fixed-price      *)
(* purchase intent, postpone/decline, the MonoPay webhook and the periodic *)
(* sweep (advance_cascade).  Handlers that await between their read of the *)
(* store and their commit (place_bid, the purchase intent) are split at    *)
(* that point; their in-flight state is kept in `tasks`.                   *)
(***************************************************************************)
EXTENDS Integers, Sequences, FiniteSets, Bags, TLC

VARIABLES
    lots,     \* lots[l]: the row of table `lots`
    bids,     \* table `bids`, in insertion order
    offers,   \* table `offers`; an offer's id is its index
    tasks,    \* bag of handlers that have read the store and not yet committed
    now,      \* datetime.utcnow(), in hours
    sent      \* bag of the cascade notifications and reminders delivered

vars == <<lots, bids, offers, tasks, now, sent>>

-----------------------------------------------------------------------------
\* Bounds of the model.
NumUsers == 3
MaxBids == 2
MaxOffers == 2
MaxSaleOffers == 2
MaxCascadeOffers == 3
MaxQuantity == 2
MaxTasks == 2
MaxInvoices == 1
MaxTime == 40
TickHours == 20
StartPrice == 50
MaxSent == 4

\* Program constants.
HOLD_HOURS == 24
REMINDER_BEFORE_HOURS == 5
DEFAULT_MIN_STEP == 15
NULL == 0

LotIds == {1}
\* The lot ids a handler may be given: those of the lots, and one that no
\* lot has.
PublicIds == LotIds \cup {Cardinality(LotIds) + 1}
Users == 1..NumUsers
Amounts == {100, 120, 150}

LotStatus == {"draft", "active", "finished"}
OfferStatus == {"offered", "postponed", "paid", "declined", "expired", "canceled"}
ActiveStatus == {"offered", "postponed"}

OfferIds == 1..Len(offers)
BidIds == 1..Len(bids)

Max(S) == CHOOSE x \in S : \A y \in S : y <= x
MaxOf(a, b) == IF a >= b THEN a ELSE b

\* One call to the Messenger or the Payment Gateway.
Call(c, who) == [call |-> c, to |-> who]

-----------------------------------------------------------------------------
\* Queries of the store.

\* select count() from offers where lot_id = l and status in S
CountOffers(offs, l, S) ==
    Cardinality({i \in 1..Len(offs) : offs[i].lot_id = l /\ offs[i].status \in S})

\* select user_tg_id, max(amount) mx from bids where lot_id = l group by user_tg_id
Bidders(bs, l) == {bs[i].user_tg_id : i \in {j \in 1..Len(bs) : bs[j].lot_id = l}}

BestAmount(bs, l, u) ==
    Max({bs[i].amount : i \in {j \in 1..Len(bs) : bs[j].lot_id = l /\ bs[j].user_tg_id = u}})

\* ... order by mx desc: every order of the groups that is descending in mx;
\* the statement names no second sort key, so groups with equal mx come in
\* any order.
Rankings(bs, l) ==
    LET B == Bidders(bs, l)
        N == Cardinality(B)
    IN  {r \in [1..N -> B] :
            /\ \A i, j \in 1..N : i # j => r[i] # r[j]
            /\ \A i, j \in 1..N : i < j =>
                   BestAmount(bs, l, r[i]) >= BestAmount(bs, l, r[j])}

\* ... limit 1: the first row of one such order.
Leaders(bs, l) == {r[1] : r \in Rankings(bs, l)}

\* create_invoice returns the id the provider gave the new invoice.
InvoiceIds == 1..MaxInvoices

-----------------------------------------------------------------------------
Init ==
    /\ lots \in [LotIds -> [status : {"draft"},
                            min_step : {0, DEFAULT_MIN_STEP},
                            quantity : 1..MaxQuantity,
                            current_price : {StartPrice},
                            current_winner_tg_id : {NULL},
                            channel_message_id : {NULL}]]
    /\ bids = <<>>
    /\ offers = <<>>
    /\ tasks = EmptyBag
    /\ now = 0
    /\ sent = EmptyBag

\* The clock, in steps of TickHours.  A handler is over within seconds (the
\* gateway call has a timeout of 20 s), so no tick falls between a handler's
\* read and its commit; and no handler reads the clock before the first offer
\* is built, so the clock is left at its origin until then.
Tick ==
    /\ offers # <<>>
    /\ tasks = EmptyBag
    /\ now < MaxTime
    /\ now' = now + TickHours
    /\ UNCHANGED <<lots, bids, offers, tasks, sent>>

-----------------------------------------------------------------------------
\* /publish: a DRAFT lot is posted to the channel and becomes ACTIVE.
PublishLot(l) ==
    /\ lots[l].status = "draft"
    /\ lots' = [lots EXCEPT ![l].status = "active", ![l].channel_message_id = 1]
    /\ UNCHANGED <<bids, offers, tasks, now, sent>>

-----------------------------------------------------------------------------
\* In-flight handlers.
Task(op, l, u, amount, existing) ==
    [op |-> op, lot_id |-> l, user_tg_id |-> u, amount |-> amount, existing |-> existing]

\* Users are interchangeable: a user the store has not seen yet is given the
\* lowest unused identity.
KnownUsers ==
    {bids[i].user_tg_id : i \in BidIds} \cup {offers[i].user_tg_id : i \in OfferIds}
        \cup {t.user_tg_id : t \in BagToSet(tasks)}

Arrives(u) == u \in KnownUsers \/ \A v \in Users \ KnownUsers : u <= v

TasksOf(op) == {t \in BagToSet(tasks) : t.op = op}

InFlight(S) == BagCardinality([t \in S |-> tasks[t]])

\* place_bid's write touches the bids and the lot's price and leader only,
\* which no handler of an offer reads or writes: the steps of those handlers
\* commute with it, and they are taken once the bids in flight have been
\* written.
BidsSettled == TasksOf("place_bid") = {}

\* A bid intake that compares the amount with the current price alone, for
\* the sensitivity check of C7.
BidAcceptedNoStep(lot, amount) ==
    /\ lot.status = "active"
    /\ lot.min_step > 0
    /\ amount >= lot.current_price

\* A bid intake that checks the amount alone, for the sensitivity check of
\* C25.
BidAcceptedAnyLot(lot, amount) == amount >= lot.current_price + lot.min_step

\* place_bid's checks on the lot it has read: the lot must be ACTIVE and an
\* auction, the amount at least current_price + min_step.
BidAccepted(lot, amount) ==
    /\ lot.status = "active"
    /\ lot.min_step > 0
    /\ amount >= lot.current_price + lot.min_step

\* place_bid, up to those checks.  A bid for a lot that is not found or one
\* that fails the checks ends the handler.
PlaceBidRead(l, u, amount) ==
    /\ UNCHANGED <<lots, bids, offers, now, sent>>
    /\ IF l \in LotIds /\ BidAccepted(lots[l], amount)
       THEN /\ BagCardinality(tasks) < MaxTasks
            /\ Len(bids) + InFlight(TasksOf("place_bid")) < MaxBids
            /\ Arrives(u)
            /\ tasks' = tasks (+) SetToBag({Task("place_bid", l, u, amount, NULL)})
       ELSE tasks' = tasks

\* place_bid, from session.add(Bid) to the commit: the bid row, the lot's
\* current_price and the leader of the bids the store holds by then.
PlaceBidWrite(t) ==
    LET l == t.lot_id
        bs == Append(bids, [lot_id |-> l, user_tg_id |-> t.user_tg_id, amount |-> t.amount])
    IN  /\ t.op = "place_bid"
        /\ bids' = bs
        /\ \E w \in Leaders(bs, l) :
               lots' = [lots EXCEPT ![l].current_price = t.amount,
                                    ![l].current_winner_tg_id = w]
        /\ tasks' = tasks (-) SetToBag({t})
        /\ UNCHANGED <<offers, now, sent>>

-----------------------------------------------------------------------------
\* An offer row.
Offer(l, u, price, rank, status, hold, invoice) ==
    [lot_id |-> l, user_tg_id |-> u, offered_price |-> price, rank_index |-> rank,
     status |-> status, hold_until |-> hold, invoice_id |-> invoice,
     reminder_sent |-> FALSE]

\* A cascade that offers the lot to every ranked bidder, for the sensitivity
\* check of C14.
CascadeOffersToAll(l, r, bs, inv) ==
    [k \in 1..Len(r) |->
        Offer(l, r[k], BestAmount(bs, l, r[k]), k, "offered", now + HOLD_HOURS, inv[k])]

\* A cascade that requests an invoice, and so sends the buttons, for the
\* CANCELED ranks too, for the sensitivity check of C21.
CascadeOffersInvoiceAll(l, r, bs, inv) ==
    [k \in 1..Len(r) |->
        IF k <= lots[l].quantity
        THEN Offer(l, r[k], BestAmount(bs, l, r[k]), k, "offered",
                   now + HOLD_HOURS, inv[k])
        ELSE Offer(l, r[k], BestAmount(bs, l, r[k]), k, "canceled", NULL, inv[k])]

\* A cascade that gives its offers no deadline, for the sensitivity check of
\* C31.
CascadeOffersNoDeadline(l, r, bs, inv) ==
    [k \in 1..Len(r) |->
        IF k <= lots[l].quantity
        THEN Offer(l, r[k], BestAmount(bs, l, r[k]), k, "offered", NULL, inv[k])
        ELSE Offer(l, r[k], BestAmount(bs, l, r[k]), k, "canceled", NULL, NULL)]

\* start_cascade, the offers of one ranking r: ranks 1..quantity are OFFERED
\* with a deadline and an invoice, the rest CANCELED.
CascadeOffers(l, r, bs, inv) ==
    [k \in 1..Len(r) |->
        IF k <= lots[l].quantity
        THEN Offer(l, r[k], BestAmount(bs, l, r[k]), k, "offered",
                   now + HOLD_HOURS, inv[k])
        ELSE Offer(l, r[k], BestAmount(bs, l, r[k]), k, "canceled", NULL, NULL)]

\* start_cascade's messages to the winners among the first n ranks of r:
\* the invoice link with the postpone and decline buttons of the new offer.
CascadeCalls(l, r, n) ==
    SetToBag({Call("cascade_offer", Len(offers) + k) :
                 k \in {j \in 1..Len(r) : j <= lots[l].quantity /\ j <= n}})

\* start_cascade (the /finish action): the lot becomes FINISHED whatever its
\* status was; an auction lot with bids gets one offer per ranked bidder.
\* `cap` bounds the offers table.
StartCascadeUpTo(l, cap) ==
    /\ lots' = [lots EXCEPT ![l].status = "finished"]
    /\ UNCHANGED <<bids, tasks, now>>
    /\ IF lots[l].min_step = 0 \/ Bidders(bids, l) = {}
       THEN offers' = offers /\ sent' = sent
       ELSE \E r \in Rankings(bids, l) : \E inv \in [1..Len(r) -> InvoiceIds] :
                /\ Len(offers) + Len(r) <= cap
                /\ offers' = offers \o CascadeOffers(l, r, bids, inv)
                /\ sent' = sent (+) CascadeCalls(l, r, Len(r))

\* start_cascade in which create_invoice raises for the rank `failed`: the
\* ranks before it have their message, the session is rolled back (the lot
\* keeps its status, no offer is stored).
StartCascadeInvoiceFails(l) ==
    /\ lots[l].min_step > 0
    /\ BagCardinality(sent) < MaxSent
    /\ \E r \in Rankings(bids, l) : \E failed \in 1..Len(r) :
           /\ failed <= lots[l].quantity
           /\ sent' = sent (+) CascadeCalls(l, r, failed - 1)
    /\ UNCHANGED <<lots, bids, offers, tasks, now>>

StartCascade(l) == StartCascadeUpTo(l, MaxOffers)

\* /finall for one ACTIVE lot: an auction lot with bids is cascaded, any
\* other lot is turned into a fixed-price lot (min_step = 0) and stays ACTIVE.
FinishAll(l) ==
    /\ lots[l].status = "active"
    /\ IF Cardinality({i \in BidIds : bids[i].lot_id = l}) > 0 /\ lots[l].min_step > 0
       THEN StartCascade(l)
       ELSE /\ BidsSettled
            /\ lots' = [lots EXCEPT ![l].min_step = 0]
            /\ UNCHANGED <<bids, offers, tasks, now, sent>>

-----------------------------------------------------------------------------
\* A handler in flight that is awaiting the Payment Gateway or the
\* Messenger: the purchase intent calls create_invoice between its queries
\* and its commit, _publish_lot posts to the channel between its read and
\* its commit; place_bid awaits the store only.
AtExternalCall(t) == t.op \in {"sale", "publish"}

\* ... and that has flushed rows it has not committed: the purchase intent
\* that found no active offer of the user has added and flushed a new one.
HoldsUncommitted(t) == t.op = "sale" /\ t.existing = NULL

\* The fixed-price purchase intent (/start sale_<id>), up to the query for
\* the user's active offer: the lot must be ACTIVE and fixed-price and not
\* sold out.  A new offer is built right after the query, with the clock of
\* that moment.
ActiveOffersOf(l, u) ==
    {i \in OfferIds : /\ offers[i].lot_id = l
                      /\ offers[i].user_tg_id = u
                      /\ offers[i].status \in ActiveStatus}

SaleAvailable(lot) == lot.status = "active" /\ lot.min_step = 0

\* A purchase intent that is never refused as sold out, for the sensitivity
\* check of C17.
NeverSoldOut(offs, l) == FALSE

\* `paid_cnt >= lot.quantity`: the lot is sold out.
SoldOut(offs, l) == CountOffers(offs, l, {"paid"}) >= lots[l].quantity

SaleRead(l, u) ==
    /\ UNCHANGED <<lots, bids, offers, now, sent>>
    /\ IF SaleAvailable(lots[l]) /\ ~SoldOut(offers, l)
       THEN /\ BagCardinality(tasks) < MaxTasks
            /\ Arrives(u)
            /\ IF ActiveOffersOf(l, u) = {}
               THEN /\ Len(offers) + InFlight({t \in TasksOf("sale") : t.existing = NULL})
                           < MaxSaleOffers
                    /\ tasks' = tasks (+) SetToBag({Task("sale", l, u, lots[l].current_price,
                                                         NULL)})
               ELSE \E e \in ActiveOffersOf(l, u) :
                    tasks' = tasks (+) SetToBag({Task("sale", l, u, NULL, e)})
       ELSE tasks' = tasks

\* The purchase intent, from session.add(offer) to the commit: the new offer
\* (or the one found) gets the invoice create_invoice returned.
SaleWrite(t) ==
    /\ t.op = "sale"
    /\ \E inv \in InvoiceIds :
           offers' = IF t.existing = NULL
                     THEN Append(offers, Offer(t.lot_id, t.user_tg_id, t.amount, 1, "offered",
                                               now + HOLD_HOURS, inv))
                     ELSE [offers EXCEPT ![t.existing].invoice_id = inv]
    /\ tasks' = tasks (-) SetToBag({t})
    /\ UNCHANGED <<lots, bids, now, sent>>

\* The purchase intent when create_invoice raises: the session block is left
\* without a commit and nothing is stored.
SaleInvoiceFails(t) ==
    /\ t.op = "sale"
    /\ tasks' = tasks (-) SetToBag({t})
    /\ UNCHANGED <<lots, bids, offers, now, sent>>

-----------------------------------------------------------------------------
\* A callback that is served for whoever presses the button, for the
\* sensitivity check of C13.
AnyOffer(o, u) == o \in OfferIds

\* `if not off or off.user_tg_id != call.from_user.id`: the callbacks are
\* served for an offer that exists and is the caller's.
OwnOffer(o, u) == o \in OfferIds /\ offers[o].user_tg_id = u

\* A postpone that restarts the hold period, for the sensitivity check of
\* C23.
PostponeExtends(o, u) ==
    /\ o \in OfferIds => offers[o].invoice_id # NULL
    /\ BidsSettled
    /\ UNCHANGED <<lots, bids, tasks, now, sent>>
    /\ IF ~OwnOffer(o, u)
       THEN offers' = offers
       ELSE offers' = [offers EXCEPT ![o].status = "postponed",
                                     ![o].hold_until = now + HOLD_HOURS]

\* The "postpone:<id>" button: the offer must exist and be the caller's.
\* The button is in the message that carries the offer's invoice, so the
\* callback arrives for an offer that has one (or for one that is gone).
Postpone(o, u) ==
    /\ o \in OfferIds => offers[o].invoice_id # NULL
    /\ BidsSettled
    /\ UNCHANGED <<lots, bids, tasks, now, sent>>
    /\ IF ~OwnOffer(o, u)
       THEN offers' = offers
       ELSE offers' = [offers EXCEPT
                          ![o].status = "postponed",
                          ![o].hold_until = IF @ = NULL THEN now + HOLD_HOURS ELSE @]

\* A decline that hands the unit to the CANCELED offers of the lot at once,
\* for the sensitivity check of C22.
DeclineAndReoffer(o, u) ==
    /\ o \in OfferIds => offers[o].invoice_id # NULL
    /\ BidsSettled
    /\ UNCHANGED <<lots, bids, tasks, now, sent>>
    /\ IF ~OwnOffer(o, u)
       THEN offers' = offers
       ELSE offers' = [i \in OfferIds |->
                          IF i = o
                          THEN [offers[i] EXCEPT !.status = "declined"]
                          ELSE IF offers[i].lot_id = offers[o].lot_id
                                  /\ offers[i].status = "canceled"
                               THEN [offers[i] EXCEPT !.status = "offered",
                                                      !.hold_until = now + HOLD_HOURS]
                               ELSE offers[i]]

\* The "decline:<id>" button.
Decline(o, u) ==
    /\ o \in OfferIds => offers[o].invoice_id # NULL
    /\ BidsSettled
    /\ UNCHANGED <<lots, bids, tasks, now, sent>>
    /\ IF ~OwnOffer(o, u)
       THEN offers' = offers
       ELSE offers' = [offers EXCEPT ![o].status = "declined"]

-----------------------------------------------------------------------------
\* The MonoPay webhook for offer o with the event's status and invoiceId.
\* The provider sends events only for an invoice that was created.
WebhookStatus == {"processing", "failure", "success"}

\* Only the final status "success" is acted on, whatever the offer's status
\* and whatever invoiceId the event carries.
WebhookMarksPaid(o, status, invoice) == o \in OfferIds /\ status = "success"

\* The offers table the webhook leaves.
WebhookOffers(o, status, invoice) ==
    IF WebhookMarksPaid(o, status, invoice)
    THEN [offers EXCEPT ![o].status = "paid"]
    ELSE offers

Webhook(o, status, invoice) ==
    /\ o \in OfferIds
    /\ offers[o].invoice_id # NULL
    /\ BidsSettled
    /\ offers' = WebhookOffers(o, status, invoice)
    /\ UNCHANGED <<lots, bids, tasks, now, sent>>

\* _maybe_delete_lot_post, with the offers as the webhook has stored them.
LotPostDeleted(offs, l) ==
    /\ lots[l].quantity - CountOffers(offs, l, {"paid"}) <= 0
    /\ lots[l].channel_message_id # NULL

\* The calls the webhook issues for such an event: the removal of the lot's
\* post once the lot is sold out, and the contact form for the payer.
WebhookCalls(o, status, invoice) ==
    IF WebhookMarksPaid(o, status, invoice)
    THEN LET offs == WebhookOffers(o, status, invoice)
         IN  (IF LotPostDeleted(offs, offers[o].lot_id)
              THEN {Call("delete_message", offers[o].lot_id)} ELSE {})
             \cup {Call("contact_form", offers[o].user_tg_id)}
    ELSE {}

-----------------------------------------------------------------------------
\* advance_cascade, the sweep.

\* 1) the reminder, five hours before the deadline
ReminderDue(o) ==
    /\ o.status \in ActiveStatus
    /\ o.hold_until # NULL
    /\ ~o.reminder_sent
    /\ LET delta == o.hold_until - now
       IN  delta <= REMINDER_BEFORE_HOURS /\ delta > 0

AfterReminders(offs) ==
    [i \in 1..Len(offs) |->
        IF ReminderDue(offs[i]) THEN [offs[i] EXCEPT !.reminder_sent = TRUE] ELSE offs[i]]

\* An expiry that looks at the deadline alone, for the sensitivity check of
\* C18.
OverdueAnyStatus(o) == o.hold_until # NULL /\ o.hold_until < now

\* An expiry that passes over the POSTPONED offers, for the sensitivity
\* check of C35.
OverdueOfferedOnly(o) ==
    /\ o.status = "offered"
    /\ o.hold_until # NULL
    /\ o.hold_until < now

\* 2) overdue offers become EXPIRED
Overdue(o) ==
    /\ o.status \in ActiveStatus
    /\ o.hold_until # NULL
    /\ o.hold_until < now

AfterExpiry(offs) ==
    [i \in 1..Len(offs) |->
        IF Overdue(offs[i]) THEN [offs[i] EXCEPT !.status = "expired"] ELSE offs[i]]

\* A sweep that refills every unpaid unit whatever is already on offer, for
\* the sensitivity check of C5.
NeedIgnoringActive(offs, l) ==
    LET paid_cnt == CountOffers(offs, l, {"paid"})
        remaining == MaxOf(lots[l].quantity - paid_cnt, 0)
    IN  IF lots[l].status = "finished" THEN remaining ELSE 0

\* A sweep that refills the free units of a lot of any status, for the
\* sensitivity check of C33.
NeedAnyLot(offs, l) ==
    LET paid_cnt == CountOffers(offs, l, {"paid"})
        remaining == MaxOf(lots[l].quantity - paid_cnt, 0)
        active_cnt == CountOffers(offs, l, ActiveStatus)
    IN  IF remaining > active_cnt THEN remaining - active_cnt ELSE 0

\* 3) per FINISHED lot, as many active offers as units are left
Need(offs, l) ==
    LET paid_cnt == CountOffers(offs, l, {"paid"})
        remaining == MaxOf(lots[l].quantity - paid_cnt, 0)
        active_cnt == CountOffers(offs, l, ActiveStatus)
    IN  IF lots[l].status = "finished" /\ remaining > active_cnt
        THEN remaining - active_cnt
        ELSE 0

Canceled(offs, l) ==
    {i \in 1..Len(offs) : offs[i].lot_id = l /\ offs[i].status = "canceled"}

\* A promotion that takes the CANCELED offers from the far end of the
\* ranking, for the sensitivity check of C4.
NextCandidatesDesc(offs, l) ==
    LET C == {i \in 1..Len(offs) : offs[i].lot_id = l /\ offs[i].status = "canceled"}
        need == Need(offs, l)
        k == IF need <= Cardinality(C) THEN need ELSE Cardinality(C)
    IN  {P \in SUBSET C :
            /\ Cardinality(P) = k
            /\ \A p \in P, c \in C \ P : offs[p].rank_index >= offs[c].rank_index}

\* select ... where status = CANCELED order by rank_index, cut to [:need]:
\* offers of equal rank_index come in any order.
NextCandidates(offs, l) ==
    LET C == Canceled(offs, l)
        need == Need(offs, l)
        k == IF need <= Cardinality(C) THEN need ELSE Cardinality(C)
    IN  {P \in SUBSET C :
            /\ Cardinality(P) = k
            /\ \A p \in P, c \in C \ P : offs[p].rank_index <= offs[c].rank_index}

\* A promotion that leaves the deadline as it finds it, for the sensitivity
\* check of C34.
PromoteNoFreshDeadline(offs, P, inv) ==
    [i \in 1..Len(offs) |->
        IF i \in P
        THEN [offs[i] EXCEPT !.status = "offered", !.invoice_id = inv[i]]
        ELSE offs[i]]

\* The promotion of the offers P: OFFERED, a deadline of HOLD_HOURS from now
\* and a new invoice; the reminder flag is not written.
Promote(offs, P, inv) ==
    [i \in 1..Len(offs) |->
        IF i \in P
        THEN [offs[i] EXCEPT !.status = "offered",
                             !.hold_until = now + HOLD_HOURS,
                             !.invoice_id = inv[i]]
        ELSE offs[i]]

\* The reminders one pass sends, from the table offs.
SweepReminders(offs) ==
    SetToBag({Call("reminder", i) : i \in {j \in 1..Len(offs) : ReminderDue(offs[j])}})

\* The listing removals one pass requests, from the table offs: one for
\* every lot that has a channel post on record and as many PAID offers as
\* units, on every pass and whatever the lot's status.
SweepDeletes(offs) ==
    {Call("delete_message", l) :
        l \in {k \in LotIds : /\ lots[k].channel_message_id # NULL
                              /\ CountOffers(offs, k, {"paid"}) >= lots[k].quantity}}

\* The offers for which one pass may request an invoice and send the
\* promotion notice, from the table offs.
SweepPromotions(offs) ==
    UNION {UNION NextCandidates(AfterExpiry(AfterReminders(offs)), l) : l \in LotIds}

\* Every Messenger and Payment Gateway call one pass can issue, from the
\* table offs.
SweepCalls(offs) ==
    BagToSet(SweepReminders(offs))
        \cup SweepDeletes(offs)
        \cup {Call("create_invoice", i) : i \in SweepPromotions(offs)}
        \cup {Call("promotion_notice", i) : i \in SweepPromotions(offs)}

\* A pass that promotes before it expires, for the sensitivity check of C16.
SweepResultsPromoteFirst(offs) ==
    LET reminded == AfterReminders(offs)
        ids == 1..Len(offs)
    IN  {AfterExpiry(Promote(reminded, UNION {pick[l] : l \in LotIds}, inv)) :
            pick \in {f \in [LotIds -> SUBSET ids] :
                         \A l \in LotIds : f[l] \in NextCandidates(reminded, l)},
            inv \in [ids -> InvoiceIds]}

\* The offers tables one pass can leave, from the table offs.
SweepResults(offs) ==
    LET swept == AfterExpiry(AfterReminders(offs))
        ids == 1..Len(offs)
    IN  {Promote(swept, UNION {pick[l] : l \in LotIds}, inv) :
            pick \in {f \in [LotIds -> SUBSET ids] :
                         \A l \in LotIds : f[l] \in NextCandidates(swept, l)},
            inv \in [ids -> InvoiceIds]}

AdvanceCascade ==
    /\ BidsSettled
    /\ offers' \in SweepResults(offers)
    /\ sent' = sent (+) SweepReminders(offers)
    /\ UNCHANGED <<lots, bids, tasks, now>>

\* The offers table a pass leaves, from the table offs, when create_invoice
\* raises: the exception leaves the session block before the commit, and
\* the reminder flags, the expiries and the promotion the pass has flushed
\* or pending are rolled back.
AdvanceCascadeAborted(offs) == offs

\* A pass in which create_invoice raises for a promoted offer: the reminders
\* of the pass are out, the session is rolled back and the scheduler's loop
\* swallows the exception.
AdvanceCascadeInvoiceFails ==
    /\ BidsSettled
    /\ \E l \in LotIds : NextCandidates(AfterExpiry(AfterReminders(offers)), l) # {{}}
    /\ BagCardinality(sent) < MaxSent
    /\ sent' = sent (+) SweepReminders(offers)
    /\ offers' = AdvanceCascadeAborted(offers)
    /\ UNCHANGED <<lots, bids, tasks, now>>

-----------------------------------------------------------------------------
Next ==
    \/ Tick
    \/ \E l \in LotIds : PublishLot(l)
    \/ \E l \in PublicIds, u \in Users, a \in Amounts : PlaceBidRead(l, u, a)
    \/ \E t \in BagToSet(tasks) : PlaceBidWrite(t)
    \/ \E l \in LotIds : StartCascade(l)
    \/ \E l \in LotIds : FinishAll(l)
    \/ \E l \in LotIds, u \in Users : SaleRead(l, u)
    \/ \E t \in BagToSet(tasks) : SaleWrite(t)
    \/ \E t \in BagToSet(tasks) : SaleInvoiceFails(t)
    \/ \E o \in 1..MaxOffers, u \in Users : Postpone(o, u)
    \/ \E o \in 1..MaxOffers, u \in Users : Decline(o, u)
    \/ \E o \in 1..MaxOffers, st \in WebhookStatus, inv \in 0..MaxInvoices : Webhook(o, st, inv)
    \/ AdvanceCascade

Spec == Init /\ [][Next]_vars

-----------------------------------------------------------------------------
\* The cascade of a lot with three ranked bidders, from the state the bid
\* intake leaves after /publish and the accepted bids 100, 120 and 150 of
\* three users.
InitCascade ==
    /\ lots \in [LotIds -> [status : {"active"},
                            min_step : {DEFAULT_MIN_STEP},
                            quantity : 1..MaxQuantity,
                            current_price : {150},
                            current_winner_tg_id : {3},
                            channel_message_id : {1}]]
    /\ bids = [k \in 1..3 |-> [lot_id |-> 1, user_tg_id |-> k,
                                amount |-> IF k = 1 THEN 100 ELSE IF k = 2 THEN 120 ELSE 150]]
    /\ offers = <<>>
    /\ tasks = EmptyBag
    /\ now = 0
    /\ sent = EmptyBag

NextCascade ==
    \/ Tick
    \/ \E l \in LotIds : StartCascadeUpTo(l, MaxCascadeOffers)
    \/ \E o \in 1..MaxCascadeOffers, u \in Users : Postpone(o, u)
    \/ \E o \in 1..MaxCascadeOffers, u \in Users : Decline(o, u)
    \/ \E o \in 1..MaxCascadeOffers, st \in WebhookStatus, inv \in 0..MaxInvoices :
           Webhook(o, st, inv)
    \/ AdvanceCascade

SpecCascade == InitCascade /\ [][NextCascade]_vars

\* The same cascade with a Payment Gateway that may refuse an invoice.
NextFail ==
    \/ NextCascade
    \/ \E l \in LotIds : StartCascadeInvoiceFails(l)
    \/ AdvanceCascadeInvoiceFails

SpecFail == InitCascade /\ [][NextFail]_vars

-----------------------------------------------------------------------------
\* /publish as the handler runs it: _publish_lot reads the lot, awaits the
\* Messenger (get_me, the post to the channel) and then commits the status
\* and the post's id.  Updates are handled concurrently, so other handlers
\* commit between the two steps.
PublishRead(l) ==
    /\ UNCHANGED <<lots, bids, offers, now, sent>>
    /\ IF lots[l].status = "draft"
       THEN /\ BagCardinality(tasks) < MaxTasks
            /\ tasks' = tasks (+) SetToBag({Task("publish", l, NULL, NULL, NULL)})
       ELSE tasks' = tasks

PublishWrite(t) ==
    /\ t.op = "publish"
    /\ lots' = [lots EXCEPT ![t.lot_id].status = "active",
                            ![t.lot_id].channel_message_id = 1]
    /\ tasks' = tasks (-) SetToBag({t})
    /\ UNCHANGED <<bids, offers, now, sent>>

NextPublish ==
    \/ Tick
    \/ \E l \in LotIds : PublishRead(l)
    \/ \E t \in BagToSet(tasks) : PublishWrite(t)
    \/ \E l \in PublicIds, u \in Users, a \in Amounts : PlaceBidRead(l, u, a)
    \/ \E t \in BagToSet(tasks) : PlaceBidWrite(t)
    \/ \E l \in LotIds : StartCascade(l)
    \/ \E l \in LotIds : FinishAll(l)
    \/ AdvanceCascade

SpecPublish == Init /\ [][NextPublish]_vars

-----------------------------------------------------------------------------
\* advance_cascade statement by statement.  The pass runs in one session
\* and awaits the store at every query and flush; the webhook and the
\* callbacks run in sessions of their own and commit in between.  A row the
\* pass has flushed is locked until the pass commits, so a handler that
\* writes that row waits for the commit; the rows the pass has only read are
\* free.  The pass in flight is kept in `tasks` with what it has read so far,
\* the table it started from and the handler that committed meanwhile.

\* q_rem and q_exp: the reminders go out and their flags are flushed, the
\* overdue offers are selected.
AdvanceCascadeSelect ==
    /\ tasks = EmptyBag
    /\ offers # <<>>
    /\ offers' = AfterReminders(offers)
    /\ sent' = sent (+) SweepReminders(offers)
    /\ tasks' = SetToBag({[op |-> "sweep", phase |-> "selected",
                           exp |-> {i \in OfferIds : Overdue(offers[i])},
                           written |-> {i \in OfferIds : ReminderDue(offers[i])},
                           paid_cnt |-> [l \in LotIds |-> 0],
                           start |-> offers, during |-> <<>>]})
    /\ UNCHANGED <<lots, bids, now>>

\* `off.status = OfferStatus.EXPIRED` for the rows selected, flushed as an
\* UPDATE by id; then the count of the PAID offers of each lot.
AdvanceCascadeExpire(t) ==
    /\ t.op = "sweep"
    /\ t.phase = "selected"
    /\ LET offs == [i \in OfferIds |->
                       IF i \in t.exp THEN [offers[i] EXCEPT !.status = "expired"]
                       ELSE offers[i]]
       IN  /\ offers' = offs
           /\ tasks' = SetToBag({[t EXCEPT
                                     !.phase = "counted",
                                     !.written = @ \cup t.exp,
                                     !.paid_cnt = [l \in LotIds |->
                                                     CountOffers(offs, l, {"paid"})]]})
    /\ UNCHANGED <<lots, bids, now, sent>>

\* `remaining > active_cnt`, with the paid_cnt the pass has counted before.
NeedGiven(offs, l, paid_cnt) ==
    LET remaining == MaxOf(lots[l].quantity - paid_cnt, 0)
        active_cnt == CountOffers(offs, l, ActiveStatus)
    IN  IF lots[l].status = "finished" /\ remaining > active_cnt
        THEN remaining - active_cnt
        ELSE 0

\* qnext, cut to [:need].
CandidatesGiven(offs, l, need) ==
    LET C == Canceled(offs, l)
        k == IF need <= Cardinality(C) THEN need ELSE Cardinality(C)
    IN  {P \in SUBSET C :
            /\ Cardinality(P) = k
            /\ \A p \in P, c \in C \ P : offs[p].rank_index <= offs[c].rank_index}

\* The count of the active offers, the promotion and the commit.
AdvanceCascadePromote(t) ==
    /\ t.op = "sweep"
    /\ t.phase = "counted"
    /\ \E pick \in [LotIds -> SUBSET OfferIds] : \E inv \in [OfferIds -> InvoiceIds] :
           /\ \A l \in LotIds :
                 pick[l] \in CandidatesGiven(offers, l, NeedGiven(offers, l, t.paid_cnt[l]))
           /\ offers' = Promote(offers, UNION {pick[l] : l \in LotIds}, inv)
    /\ tasks' = EmptyBag
    /\ UNCHANGED <<lots, bids, now, sent>>

\* What a handler of an offer commits: the webhook's "success", the decline
\* and the postpone of the offer's user.
OfferOps == {"webhook", "decline", "postpone"}

Applied(offs, kind, o) ==
    CASE kind = "webhook" -> [offs EXCEPT ![o].status = "paid"]
      [] kind = "decline" -> [offs EXCEPT ![o].status = "declined"]
      [] kind = "postpone" ->
            [offs EXCEPT ![o].status = "postponed",
                         ![o].hold_until = IF @ = NULL THEN now + HOLD_HOURS ELSE @]

\* A handler of offer o commits while the pass is in flight; one per pass.
DuringSweep(t, kind, o) ==
    /\ t.op = "sweep"
    /\ t.during = <<>>
    /\ o \in OfferIds
    /\ offers[o].invoice_id # NULL
    /\ o \notin t.written
    /\ offers' = Applied(offers, kind, o)
    /\ tasks' = SetToBag({[t EXCEPT !.during = <<[kind |-> kind, o |-> o]>>]})
    /\ UNCHANGED <<lots, bids, now, sent>>

NextRace ==
    \/ Tick
    \/ \E l \in LotIds : tasks = EmptyBag /\ StartCascadeUpTo(l, MaxCascadeOffers)
    \/ \E o \in 1..MaxCascadeOffers, u \in Users : tasks = EmptyBag /\ Postpone(o, u)
    \/ \E o \in 1..MaxCascadeOffers, u \in Users : tasks = EmptyBag /\ Decline(o, u)
    \/ \E o \in 1..MaxCascadeOffers, st \in WebhookStatus, inv \in 0..MaxInvoices :
           tasks = EmptyBag /\ Webhook(o, st, inv)
    \/ AdvanceCascadeSelect
    \/ \E t \in BagToSet(tasks) : AdvanceCascadeExpire(t)
    \/ \E t \in BagToSet(tasks) : AdvanceCascadePromote(t)
    \/ \E t \in BagToSet(tasks), kind \in OfferOps, o \in 1..MaxCascadeOffers :
           DuringSweep(t, kind, o)

SpecRace == InitCascade /\ [][NextRace]_vars

-----------------------------------------------------------------------------
\* The cascade of the three bidders while a second /publish of the lot is in
\* flight: it read the lot as a DRAFT before the first one committed, and
\* its commit makes the lot ACTIVE again, with the offers it has by then.
InitReopen ==
    /\ lots \in [LotIds -> [status : {"active"},
                            min_step : {DEFAULT_MIN_STEP},
                            quantity : 1..MaxQuantity,
                            current_price : {150},
                            current_winner_tg_id : {3},
                            channel_message_id : {1}]]
    /\ bids = [k \in 1..3 |-> [lot_id |-> 1, user_tg_id |-> k,
                                amount |-> IF k = 1 THEN 100 ELSE IF k = 2 THEN 120 ELSE 150]]
    /\ offers = <<>>
    /\ tasks = SetToBag({Task("publish", 1, NULL, NULL, NULL)})
    /\ now = 0
    /\ sent = EmptyBag

NextReopen ==
    \/ NextCascade
    \/ \E t \in BagToSet(tasks) : PublishWrite(t)

SpecReopen == InitReopen /\ [][NextReopen]_vars

-----------------------------------------------------------------------------
\* The cascade under its scheduling: the clock advances, and the scheduler's
\* loop runs a pass of the sweep every 30 seconds for as long as the process
\* lives.  The callbacks of a user who is not the offer's and the events
\* that are not a "success" change nothing and are left out: the steps that
\* remain are the steps of NextCascade that change the state.
NextLive ==
    \/ Tick
    \/ \E l \in LotIds : StartCascadeUpTo(l, MaxCascadeOffers)
    \/ \E o \in 1..MaxCascadeOffers : o \in OfferIds /\ Postpone(o, offers[o].user_tg_id)
    \/ \E o \in 1..MaxCascadeOffers : o \in OfferIds /\ Decline(o, offers[o].user_tg_id)
    \/ \E o \in 1..MaxCascadeOffers : Webhook(o, "success", NULL)
    \/ AdvanceCascade

SpecLive == InitCascade /\ [][NextLive]_vars /\ WF_vars(Tick) /\ WF_vars(AdvanceCascade)

-----------------------------------------------------------------------------
\* Properties.

\* C1 (capacity): in every reachable state, every lot has at most `quantity`
\* offers whose status is OFFERED, POSTPONED or PAID.
C1_Capacity ==
    \A l \in LotIds :
        CountOffers(offers, l, {"offered", "postponed", "paid"}) <= lots[l].quantity

\* C2 (single active claim): in every reachable state, a user has at most one
\* offer in OFFERED or POSTPONED on a lot.
C2_SingleActiveClaim ==
    \A l \in LotIds, u \in Users : Cardinality(ActiveOffersOf(l, u)) <= 1

\* C3 (idempotent payment): a "success" event for an offer that is already
\* PAID, carrying the offer's own invoice, changes no stored field and issues
\* no call: no removal of the lot's post, no further message to the payer.
C3_PaymentIdempotent ==
    \A o \in OfferIds :
        (offers[o].status = "paid" /\ offers[o].invoice_id # NULL) =>
            /\ WebhookOffers(o, "success", offers[o].invoice_id) = offers
            /\ WebhookCalls(o, "success", offers[o].invoice_id) = {}

\* C4 (promotion): every step that moves an offer into OFFERED moves it from
\* CANCELED, on a FINISHED lot; no CANCELED offer of the lot with a smaller
\* rank_index stays CANCELED in that step; the step promotes as many offers
\* as units are free or CANCELED offers exist, so that afterwards the active
\* and paid offers do not exceed the quantity and a CANCELED offer is left
\* over only when they fill it.
C4_PromotionCorrect ==
    [][\A i \in OfferIds :
          (offers[i].status # "offered" /\ offers'[i].status = "offered") =>
              LET l == offers[i].lot_id
              IN  /\ offers[i].status = "canceled"
                  /\ lots[l].status = "finished"
                  /\ \A c \in OfferIds :
                        (/\ offers[c].lot_id = l
                         /\ offers[c].status = "canceled"
                         /\ offers'[c].status = "canceled")
                        => offers[i].rank_index < offers[c].rank_index
                  /\ CountOffers(offers', l, {"offered", "postponed", "paid"})
                        <= lots[l].quantity
                  /\ (\E c \in OfferIds : offers'[c].lot_id = l /\ offers'[c].status = "canceled")
                        => CountOffers(offers', l, {"offered", "postponed", "paid"})
                              = lots[l].quantity
      ]_vars

\* The offer of rank 1 has expired, the sweep has promoted rank 2 and rank 3
\* is still CANCELED.
C4_Witness ==
    /\ Len(offers) = 3
    /\ offers[1].status = "expired"
    /\ offers[2].status = "offered" /\ offers[2].rank_index = 2
    /\ offers[2].hold_until > HOLD_HOURS
    /\ offers[3].status = "canceled"

\* C5 (sweep convergence): whatever table a pass of the sweep leaves, a
\* second pass at the same clock reading leaves exactly that table: no
\* promotion, no expiry, no reminder flag, no new invoice.
C5_SweepConverges ==
    \A r \in SweepResults(offers) : SweepResults(r) = {r}

\* A pass that expires an offer and promotes another one.
C5_Witness ==
    \E r \in SweepResults(offers) : \E i, j \in OfferIds :
        /\ offers[i].status \in ActiveStatus /\ r[i].status = "expired"
        /\ offers[j].status = "canceled" /\ r[j].status = "offered"

\* C6 (ranking): the step that finishes an ACTIVE auction lot without offers
\* leaves exactly one offer per bidder, with ranks 1..N, each priced at the
\* bidder's best bid, prices never rising with the rank, and of two bidders
\* with equal best bids the one who reached the amount first ranked first.
C6_CascadeRanking ==
    [][\A l \in LotIds :
          (/\ lots[l].status = "active" /\ lots'[l].status = "finished"
           /\ lots[l].min_step > 0
           /\ \A i \in OfferIds : offers[i].lot_id # l)
          =>
          LET B == Bidders(bids, l)
              Of == {i \in 1..Len(offers') : offers'[i].lot_id = l}
              Reached(u) == CHOOSE j \in BidIds :
                  /\ bids[j].lot_id = l /\ bids[j].user_tg_id = u
                  /\ bids[j].amount = BestAmount(bids, l, u)
                  /\ \A k \in 1..(j - 1) :
                        ~(/\ bids[k].lot_id = l /\ bids[k].user_tg_id = u
                          /\ bids[k].amount = bids[j].amount)
          IN  /\ Cardinality(Of) = Cardinality(B)
              /\ \A u \in B : \E i \in Of : offers'[i].user_tg_id = u
              /\ {offers'[i].rank_index : i \in Of} = 1..Cardinality(B)
              /\ \A i \in Of :
                    offers'[i].offered_price = BestAmount(bids, l, offers'[i].user_tg_id)
              /\ \A i, j \in Of :
                    offers'[i].rank_index < offers'[j].rank_index =>
                        /\ offers'[i].offered_price >= offers'[j].offered_price
                        /\ offers'[i].offered_price = offers'[j].offered_price =>
                              Reached(offers'[i].user_tg_id) < Reached(offers'[j].user_tg_id)
      ]_vars

\* C7 (bid too low): no step admits a bid whose amount is below the lot's
\* current_price + min_step, and a step that appends a bid or moves the
\* lot's price or leader is the write of an admitted bid; so with the bids
\* 100 and 150 recorded on a lot that started at 50 with step 15, the price
\* is 150, the leader is the bidder of 150 and a bid of 120 is not admitted.
C7_BidTooLowRejected ==
    /\ [][/\ \A l \in LotIds, u \in Users, a \in Amounts :
               a < lots[l].current_price + lots[l].min_step =>
                   LET t == Task("place_bid", l, u, a, NULL)
                   IN  CopiesIn(t, tasks') <= CopiesIn(t, tasks)
          /\ (bids' # bids \/ \E l \in LotIds :
                  \/ lots'[l].current_price # lots[l].current_price
                  \/ lots'[l].current_winner_tg_id # lots[l].current_winner_tg_id)
             => \E t \in TasksOf("place_bid") :
                    /\ tasks' = tasks (-) SetToBag({t})
                    /\ bids' = Append(bids, [lot_id |-> t.lot_id,
                                             user_tg_id |-> t.user_tg_id,
                                             amount |-> t.amount])
       ]_vars
    /\ [](\A l \in LotIds :
             (/\ lots[l].min_step = DEFAULT_MIN_STEP
              /\ Len(bids) = 2 /\ bids[1].amount = 100 /\ bids[2].amount = 150)
             => /\ lots[l].current_price = 150
                /\ lots[l].current_winner_tg_id = bids[2].user_tg_id
                /\ ~BidAccepted(lots[l], 120))

\* The bids 100 and 150 are recorded on the ACTIVE lot, where a bid of 120
\* is below the minimum of 165.
C7_Witness ==
    /\ Len(bids) = 2 /\ bids[1].amount = 100 /\ bids[2].amount = 150
    /\ bids[1].user_tg_id # bids[2].user_tg_id
    /\ tasks = EmptyBag
    /\ \A l \in LotIds :
          lots[l].status = "active" /\ 120 < lots[l].current_price + lots[l].min_step

\* C8 (concurrent bids): once every bid in flight has committed, the lot's
\* current_price is the largest amount among its recorded bids.
C8_PriceIsMaxBid ==
    \A l \in LotIds :
        (BidsSettled /\ \E i \in BidIds : bids[i].lot_id = l) =>
            lots[l].current_price = Max({bids[i].amount : i \in {j \in BidIds : bids[j].lot_id = l}})

\* C9 (terminal statuses): no step changes the status of an offer that is
\* PAID, DECLINED or EXPIRED.
C9_TerminalStatuses ==
    [][\A o \in OfferIds :
          offers[o].status \in {"paid", "declined", "expired"} =>
              offers'[o].status = offers[o].status]_vars

\* C10 (paid within quantity): in every reachable state, every lot has at
\* most `quantity` offers in PAID.
C10_PaidWithinQuantity ==
    \A l \in LotIds : CountOffers(offers, l, {"paid"}) <= lots[l].quantity

\* C11 (sold out cancels the rest): a step that marks an offer PAID and
\* thereby brings the lot's PAID count to its quantity leaves every other
\* offer of the lot that was OFFERED or POSTPONED in CANCELED.
C11_SoldOutCancelsOthers ==
    [][\A o \in OfferIds :
          (/\ offers[o].status # "paid" /\ offers'[o].status = "paid"
           /\ CountOffers(offers', offers[o].lot_id, {"paid"})
                 >= lots[offers[o].lot_id].quantity)
          => \A p \in OfferIds \ {o} :
                (offers[p].lot_id = offers[o].lot_id /\ offers[p].status \in ActiveStatus)
                => offers'[p].status = "canceled"
      ]_vars

\* C12 (decline and postpone need an active offer): the postpone or decline
\* callback of the owner on an offer that is PAID, EXPIRED, DECLINED or
\* CANCELED leaves the offer's status and hold_until as they were.
C12_InactiveOfferUntouched ==
    [][\A o \in OfferIds, u \in Users :
          (/\ Postpone(o, u) \/ Decline(o, u)
           /\ offers[o].user_tg_id = u
           /\ offers[o].status \in {"paid", "expired", "declined", "canceled"})
          => /\ offers'[o].status = offers[o].status
             /\ offers'[o].hold_until = offers[o].hold_until
      ]_vars

\* C13 (foreign or unknown offer): the postpone or decline callback of a
\* user who is not the offer's user, or for an offer id that does not exist,
\* changes no offer.
C13_ForeignCallbackIgnored ==
    [][\A o \in 1..MaxOffers, u \in Users :
          (/\ Postpone(o, u) \/ Decline(o, u)
           /\ o \notin OfferIds \/ offers[o].user_tg_id # u)
          => offers' = offers
      ]_vars

\* An active offer whose buttons are out, and a second user who could press
\* them; an offer id that does not exist yet.
C13_Witness ==
    /\ BidsSettled
    /\ \E o \in OfferIds, u \in Users :
          /\ offers[o].user_tg_id # u
          /\ offers[o].status \in ActiveStatus
          /\ offers[o].invoice_id # NULL
    /\ \E o \in 1..MaxOffers : o \notin OfferIds

\* C14 (cascade offers): every offer start_cascade creates with a rank up
\* to the lot's quantity is OFFERED with hold_until = now + HOLD_HOURS; every
\* offer of a higher rank is CANCELED with no deadline and no invoice, and
\* no message about it goes out.
C14_CascadeOffers ==
    [][(Len(offers') > Len(offers) /\ tasks' = tasks) =>
          \A i \in (Len(offers) + 1)..Len(offers') :
              LET o == offers'[i]
              IN  IF o.rank_index <= lots[o.lot_id].quantity
                  THEN /\ o.status = "offered"
                       /\ o.hold_until = now + HOLD_HOURS
                  ELSE /\ o.status = "canceled"
                       /\ o.hold_until = NULL
                       /\ o.invoice_id = NULL
                       /\ CopiesIn(Call("cascade_offer", i), sent')
                             = CopiesIn(Call("cascade_offer", i), sent)
      ]_vars

\* The cascade of three bidders has just been created, the last rank is
\* CANCELED.
C14_Witness ==
    /\ Len(offers) = 3 /\ now = 0
    /\ offers[1].status = "offered" /\ offers[1].hold_until = HOLD_HOURS
    /\ offers[3].status = "canceled" /\ offers[3].hold_until = NULL

\* C15 (invoice failure in the cascade): a run of start_cascade that has
\* sent the offer message of a rank ends with the lot FINISHED, that offer
\* stored, and an offer stored for every ranked bidder of the lot, also when
\* create_invoice fails for a later rank.
C15_CascadeSurvivesInvoiceFailure ==
    [][\A i \in 1..MaxCascadeOffers :
          CopiesIn(Call("cascade_offer", i), sent') > CopiesIn(Call("cascade_offer", i), sent)
          => /\ i \in 1..Len(offers')
             /\ lots'[offers'[i].lot_id].status = "finished"
             /\ \A u \in Bidders(bids, offers'[i].lot_id) :
                   \E j \in 1..Len(offers') :
                       /\ offers'[j].lot_id = offers'[i].lot_id
                       /\ offers'[j].user_tg_id = u
      ]_vars

\* C16 (expiry before promotion): a pass of the sweep over a FINISHED lot of
\* quantity 1 whose rank-1 offer is OFFERED and overdue and whose rank-2
\* offer is CANCELED ends with rank 1 EXPIRED and rank 2 OFFERED with a
\* deadline later than now.
C16_ExpiryBeforePromotion ==
    [][AdvanceCascade => \A l \in LotIds : \A i, j \in OfferIds :
          (/\ lots[l].status = "finished" /\ lots[l].quantity = 1
           /\ offers[i].lot_id = l /\ offers[i].rank_index = 1
           /\ offers[i].status = "offered"
           /\ offers[i].hold_until # NULL /\ offers[i].hold_until < now
           /\ offers[j].lot_id = l /\ offers[j].rank_index = 2
           /\ offers[j].status = "canceled")
          => /\ offers'[i].status = "expired"
             /\ offers'[j].status = "offered"
             /\ offers'[j].hold_until > now
      ]_vars

\* The state before such a pass.
C16_Witness ==
    /\ \A l \in LotIds : lots[l].status = "finished" /\ lots[l].quantity = 1
    /\ Len(offers) = 3
    /\ offers[1].rank_index = 1 /\ offers[1].status = "offered"
    /\ offers[1].hold_until < now
    /\ offers[2].rank_index = 2 /\ offers[2].status = "canceled"

\* C17 (sold out): while a fixed-price lot has as many PAID offers as units,
\* no purchase intent for it is admitted, and an offer is added to a
\* fixed-price lot only by the write of an intent admitted earlier: an intent
\* that arrives at the sold-out lot creates no offer and requests no invoice.
C17_SoldOutIntentRefused ==
    [][\A l \in LotIds :
          /\ (lots[l].min_step = 0 /\ CountOffers(offers, l, {"paid"}) >= lots[l].quantity)
             => \A t \in BagToSet(tasks') :
                    (t.op = "sale" /\ t.lot_id = l) => CopiesIn(t, tasks') <= CopiesIn(t, tasks)
          /\ (lots[l].min_step = 0 /\ Len(offers') > Len(offers))
             => \E t \in TasksOf("sale") : tasks' = tasks (-) SetToBag({t})
      ]_vars

\* The ACTIVE fixed-price lot is sold out, no intent is in flight and the
\* offers table has room for another offer.
C17_Witness ==
    /\ tasks = EmptyBag
    /\ Len(offers) < MaxSaleOffers
    /\ \A l \in LotIds :
          /\ SaleAvailable(lots[l])
          /\ CountOffers(offers, l, {"paid"}) >= lots[l].quantity

C19_ReminderOnce ==
    \A o \in 1..MaxCascadeOffers : CopiesIn(Call("reminder", o), sent) <= 1

\* C20 (invoice mismatch): a "success" event whose invoice reference differs
\* from the one stored with the offer changes no offer.
C20_InvoiceMismatchIgnored ==
    \A o \in OfferIds : \A inv \in 0..MaxInvoices :
        (offers[o].invoice_id # NULL /\ inv # offers[o].invoice_id) =>
            WebhookOffers(o, "success", inv) = offers

C22_DeclineOnlyDeclines ==
    [][/\ \A o \in OfferIds, u \in Users :
             (/\ Decline(o, u)
              /\ offers[o].user_tg_id = u
              /\ offers[o].status \in ActiveStatus)
             => offers'[o].status = "declined"
       /\ \A o \in OfferIds :
             (offers[o].status \in ActiveStatus /\ offers'[o].status = "declined")
             => /\ offers' = [offers EXCEPT ![o].status = "declined"]
                /\ lots' = lots
                /\ bids' = bids
                /\ sent' = sent
      ]_vars

\* The only unit's offer has been declined and no pass of the sweep has run
\* since: the next ranks are still CANCELED and nothing is on offer.
C22_Witness ==
    /\ Len(offers) = 3
    /\ \A l \in LotIds : lots[l].status = "finished" /\ lots[l].quantity = 1
    /\ offers[1].status = "declined"
    /\ offers[2].status = "canceled" /\ offers[3].status = "canceled"

\* C23 (postpone keeps the deadline): the owner's postpone of an OFFERED or
\* POSTPONED offer makes it POSTPONED; a deadline that is set stays as it
\* is, a null one becomes now + HOLD_HOURS; nothing else changes.
C23_PostponeKeepsDeadline ==
    [][\A o \in OfferIds, u \in Users :
          (/\ Postpone(o, u)
           /\ offers[o].user_tg_id = u
           /\ offers[o].status \in ActiveStatus)
          => /\ offers'[o].status = "postponed"
             /\ offers'[o].hold_until =
                   IF offers[o].hold_until = NULL THEN now + HOLD_HOURS
                   ELSE offers[o].hold_until
             /\ offers' = [offers EXCEPT ![o].status = offers'[o].status,
                                          ![o].hold_until = offers'[o].hold_until]
             /\ lots' = lots
      ]_vars

\* An offer made at hour 0 is POSTPONED at hour 20 or later with the
\* deadline it was given when it was made.
C23_Witness ==
    \E o \in OfferIds :
        /\ offers[o].status = "postponed"
        /\ now >= TickHours
        /\ offers[o].hold_until = HOLD_HOURS

\* C24 (FINISHED is final): no step takes a lot out of FINISHED, whatever
\* the interleaving of publish, finish, finish-all, bids and the sweep.
C24_FinishedIsFinal ==
    [][\A l \in LotIds : lots[l].status = "finished" => lots'[l].status = "finished"]_vars

\* C25 (bid on an unavailable lot): no step admits a bid for a lot that does
\* not exist, is not ACTIVE or is fixed-price (min_step = 0); and a step that
\* appends a bid or moves a lot's price or leader is the write of a bid
\* admitted earlier, so the rejected bid leaves bids, current_price and
\* current_winner as they were.
C25_UnavailableLotRejectsBid ==
    [][/\ \A l \in PublicIds, u \in Users, a \in Amounts :
             (\/ l \notin LotIds
              \/ lots[l].status # "active"
              \/ lots[l].min_step = 0)
             => LET t == Task("place_bid", l, u, a, NULL)
                IN  CopiesIn(t, tasks') <= CopiesIn(t, tasks)
       /\ (\/ bids' # bids
           \/ \E l \in LotIds :
                  \/ lots'[l].current_price # lots[l].current_price
                  \/ lots'[l].current_winner_tg_id # lots[l].current_winner_tg_id)
          => \E t \in TasksOf("place_bid") :
                 /\ tasks' = tasks (-) SetToBag({t})
                 /\ Len(bids') = Len(bids) + 1
      ]_vars

\* An auction lot with one bid has been finished, no handler is in flight,
\* and a bid of 150 would pass the check of the amount.
C25_Witness ==
    /\ tasks = EmptyBag
    /\ Len(bids) = 1
    /\ \E l \in LotIds :
          /\ lots[l].status = "finished"
          /\ lots[l].min_step > 0
          /\ lots[l].current_price + lots[l].min_step <= 150

\* C26 (no bid after the finish): no step appends a bid to a FINISHED lot or
\* changes its current_price or current_winner, also when the bid was
\* admitted while the lot was ACTIVE; and once no bid is in flight, every
\* bidder of a FINISHED auction lot has an offer of the cascade.
C26_NoBidAfterFinish ==
    /\ [][\A l \in LotIds :
             lots[l].status = "finished"
             => /\ \A i \in (Len(bids) + 1)..Len(bids') : bids'[i].lot_id # l
                /\ lots'[l].current_price = lots[l].current_price
                /\ lots'[l].current_winner_tg_id = lots[l].current_winner_tg_id
         ]_vars
    /\ [](\A l \in LotIds :
             (lots[l].status = "finished" /\ lots[l].min_step > 0 /\ BidsSettled)
             => \A u \in Bidders(bids, l) :
                    \E i \in OfferIds : offers[i].lot_id = l /\ offers[i].user_tg_id = u)

\* The statuses of a table of offers.
Statuses(offs) == [i \in 1..Len(offs) |-> offs[i].status]

\* The statuses the pass t and the handler that committed during it leave
\* when they run one after the other, in either order.
SerialOutcomes(t) ==
    IF t.during = <<>>
    THEN {Statuses(r) : r \in SweepResults(t.start)}
    ELSE LET kind == t.during[1].kind
             o == t.during[1].o
         IN  {Statuses(Applied(r, kind, o)) : r \in SweepResults(t.start)}
                 \cup {Statuses(r) : r \in SweepResults(Applied(t.start, kind, o))}

\* C27 (linearizable offers): when a pass of the sweep commits, with a
\* webhook, a decline or a postpone committed while it ran, the statuses of
\* the offers are those of the pass followed by the handler or of the
\* handler followed by the pass; so the pass writes neither EXPIRED nor a
\* promotion against a PAID it has not seen.
C27_SweepLinearizable ==
    [][\A t \in TasksOf("sweep") :
          tasks' = EmptyBag => Statuses(offers') \in SerialOutcomes(t)]_vars

\* C28 (invoice failure in the sweep): when create_invoice fails in a pass
\* that has expired an offer or flagged a reminder and then promotes, the
\* table the pass leaves has those offers EXPIRED and flagged, and an offer
\* it was promoting OFFERED with no invoice.
C28_FailedPassKeepsProgress ==
    LET swept == AfterExpiry(AfterReminders(offers))
        r == AdvanceCascadeAborted(offers)
    IN  (/\ BidsSettled
         /\ \E l \in LotIds : NextCandidates(swept, l) # {{}}
         /\ \E i \in OfferIds : Overdue(offers[i]) \/ ReminderDue(offers[i]))
        => /\ \A i \in OfferIds : Overdue(offers[i]) => r[i].status = "expired"
           /\ \A i \in OfferIds : ReminderDue(offers[i]) => r[i].reminder_sent
           /\ \E l \in LotIds : \E P \in NextCandidates(swept, l) : \E i \in P :
                  r[i].status = "offered" /\ r[i].invoice_id = NULL

\* C29 (no transaction across an external call): no handler is awaiting the
\* Payment Gateway or the Messenger while it holds writes it has not
\* committed.
C29_NoOpenTransactionAtCall ==
    \A t \in BagToSet(tasks) : AtExternalCall(t) => ~HoldsUncommitted(t)

\* C30 (PAID only from an active offer): every step that makes an offer PAID
\* finds it OFFERED or POSTPONED; a "success" event for an EXPIRED, DECLINED
\* or CANCELED offer does not make it PAID.
C30_PaidOnlyFromActive ==
    [][\A o \in OfferIds :
          (offers[o].status # "paid" /\ offers'[o].status = "paid")
          => offers[o].status \in ActiveStatus]_vars

\* C31 (every hold has a deadline): in every reachable state, every offer
\* that is OFFERED or POSTPONED has a hold_until, whether it comes from
\* start_cascade, the sweep's promotion, the purchase intent or a postpone.
C31_ActiveHasDeadline ==
    \A o \in OfferIds :
        offers[o].status \in ActiveStatus => offers[o].hold_until # NULL

\* An offer of a rank above the quantity has been promoted by the sweep and
\* postponed by its user, next to an offer of the cascade itself.
C31_Witness ==
    \E o \in OfferIds :
        /\ offers[o].rank_index > lots[offers[o].lot_id].quantity
        /\ offers[o].status = "postponed"
        /\ offers[o].hold_until # NULL

\* C32 (leader and price): whenever no bid is in flight, a lot with bids has
\* as current_price the largest amount bid on it and as current_winner a
\* user whose best bid is that amount.
C32_LeaderAndPriceAreMax ==
    \A l \in LotIds :
        (BidsSettled /\ Bidders(bids, l) # {}) =>
            LET top == Max({bids[i].amount : i \in {j \in BidIds : bids[j].lot_id = l}})
            IN  /\ lots[l].current_price = top
                /\ lots[l].current_winner_tg_id \in Bidders(bids, l)
                /\ BestAmount(bids, l, lots[l].current_winner_tg_id) = top

\* C33 (how many are promoted): a pass of the sweep promotes, for every lot,
\* exactly min(max(remaining - active, 0), canceled) offers when the lot is
\* FINISHED and none when it is not, where remaining = max(quantity - paid,
\* 0) and paid, active and canceled count the lot's offers after the
\* expiries of the pass.
C33_PromotedCount ==
    [][AdvanceCascade => \A l \in LotIds :
          LET swept == AfterExpiry(offers)
              paid == CountOffers(swept, l, {"paid"})
              remaining == MaxOf(lots[l].quantity - paid, 0)
              active == CountOffers(swept, l, ActiveStatus)
              canceled == CountOffers(swept, l, {"canceled"})
              free == MaxOf(remaining - active, 0)
              promoted == Cardinality({i \in OfferIds :
                                          /\ offers[i].lot_id = l
                                          /\ offers[i].status = "canceled"
                                          /\ offers'[i].status = "offered"})
          IN  promoted = IF lots[l].status = "finished"
                         THEN (IF free <= canceled THEN free ELSE canceled)
                         ELSE 0
      ]_vars

\* Rank 2 was promoted after the decline of rank 1 and has expired; the lot
\* has been made ACTIVE again in between, and rank 3 has stayed CANCELED
\* although the unit is free.
C33_Witness ==
    /\ Len(offers) = 3
    /\ \A l \in LotIds : lots[l].status = "active" /\ lots[l].quantity = 1
    /\ offers[1].status = "declined"
    /\ offers[2].status = "expired"
    /\ offers[3].status = "canceled"
    /\ tasks = EmptyBag

\* C34 (a promoted offer starts afresh): every offer that a step takes out
\* of CANCELED is OFFERED after the step, with hold_until = now + HOLD_HOURS
\* and reminder_sent = false.
C34_PromotedStartsAfresh ==
    [][\A o \in OfferIds :
          (offers[o].status = "canceled" /\ offers'[o].status # "canceled")
          => /\ offers'[o].status = "offered"
             /\ offers'[o].hold_until = now + HOLD_HOURS
             /\ offers'[o].reminder_sent = FALSE
      ]_vars

\* Rank 2 was promoted at hour 20, holds the unit until hour 44 and has got
\* its own reminder at hour 40.
C34_Witness ==
    /\ Len(offers) = 3
    /\ offers[2].rank_index = 2
    /\ offers[2].status = "offered"
    /\ offers[2].hold_until = TickHours + HOLD_HOURS
    /\ offers[2].reminder_sent
    /\ CopiesIn(Call("reminder", 2), sent) = 1

C36_FinishedOnlyFromActive ==
    [][\A l \in LotIds :
          /\ (lots[l].status # "finished" /\ lots'[l].status = "finished")
             => lots[l].status = "active"
          /\ (lots[l].status = "draft" /\ lots'[l].status # "active")
             => (lots'[l].status = "draft" /\ offers' = offers)
      ]_vars

\* C37 (one cascade per lot): on an auction lot any two offers have
\* different bidders and different rank_index values.
C37_OneOfferPerBidder ==
    \A i, j \in OfferIds :
        (/\ i # j
         /\ offers[i].lot_id = offers[j].lot_id
         /\ lots[offers[i].lot_id].min_step > 0)
        => /\ offers[i].user_tg_id # offers[j].user_tg_id
           /\ offers[i].rank_index # offers[j].rank_index

\* C38 (a second pass is silent): whatever table a pass leaves, a pass that
\* follows it at the same clock value issues no reminder, no promotion
\* notice, no invoice request and no listing removal.
C38_SecondPassSilent ==
    tasks = EmptyBag => \A r \in SweepResults(offers) : SweepCalls(r) = {}
====
